---- MODULE Spec2Model ----
(***************************************************************************)
(* Routing / orchestration state machine of the multi-agent support        *)
(* system: the Supervisor (src/src/agents/supervisor.py), the dispatcher   *)
(* (src/src/graph/routing.py), the specialist and terminal handlers        *)
(* (src/src/agents/*.py) and the LangGraph workflow that wires them        *)
(* (src/src/graph/workflow.py).                                            *)
(*                                                                         *)
(* The graph state is one record, `state`, holding the channel values the  *)
(* engine keeps.  A node receives that record, returns a dictionary, and   *)
(* the engine folds the dictionary into the channels (Merge): keys that    *)
(* are not fields of GraphState are dropped, keys missing from the         *)
(* dictionary leave their channel unchanged, and `messages` is folded with *)
(* the add_messages reducer.                                               *)
(*                                                                         *)
(* Two further layers are modelled around the workflow: the model          *)
(* gateway's tool-calling loop (src/src/utils/llm_client.py) as it runs    *)
(* inside a specialist handler, and the chat endpoint with its session     *)
(* store (src/src/api/routes/chat.py, src/src/session/manager.py).         *)
(***************************************************************************)
EXTENDS Integers, Sequences, FiniteSets, TLC

\* ------------------------------------------------------------------ bounds
\* Largest SUPERVISOR_MAX_ITERATIONS setting explored (the setting is read
\* from the environment; its default is DefaultMaxIterations).
MaxSetting == 4

\* Number of node executions after which the engine gives up on a run
\* (the engine's recursion limit; workflow.invoke passes no configuration).
RecursionLimit == 25

\* Largest number of tool calls in one model answer that is explored.
MaxToolCalls == 2
Ttl == 2                \* the inactivity window (SESSION_TTL_SECONDS), in ticks
MaxMessages == 3         \* longest messages list handed to the final-answer scan
MaxClock == 6           \* ticks of the clock an expiry run covers

\* ------------------------------------------------------- program constants
DefaultMaxIterations == 3

\* ----------------------------------------------------------------- values
None == "None"          \* Python None
Absent == "<absent>"    \* a key that a JSON object does not have
END == "__end__"

Specialists == {"policy_agent", "billing_agent", "claims_agent", "general_help_agent"}
HandlerNames == Specialists \cup {"human_escalation_agent"}

\* Texts the model gateway may produce for a handler.
Texts == {"resp1", "resp2"}

\* ask_user could not obtain an answer: reading the reply raised.
NoAnswer == "<no answer>"

\* What the model may answer to the Supervisor's routing prompt.
\*   tool_call : the model calls ask_user(question, missing_info) and the
\*               user answers `answer`, or no answer can be read
\*   text      : plain text `content`, to be parsed as JSON
JsonObjects ==
    [json : {"object"},
     next_agent : HandlerNames \cup {"end", "unknown_agent", None, Absent},
     task : {"t1"}, justification : {"j1"}]
    \cup
    [json : {"object"}, next_agent : {Absent, "policy_agent"},
     task : {Absent}, justification : {Absent}]

Contents ==
    JsonObjects
    \cup [json : {"invalid", "non_object"}, next_agent : {Absent},
          task : {Absent}, justification : {Absent}]

NoContent ==
    [json |-> "none", next_agent |-> Absent, task |-> Absent, justification |-> Absent]

\* No model call was made.
NoOutput ==
    [kind |-> "none", question |-> None, answer |-> None, content |-> NoContent]

\* A handler's model call that returned plain text.
TextOutput ==
    [kind |-> "text", question |-> None, answer |-> None, content |-> NoContent]

ModelOutputs ==
    [kind : {"tool_call"}, question : {"q1"}, answer : {"a1", NoAnswer},
     content : {NoContent}]
    \cup [kind : {"text"}, question : {None}, answer : {None}, content : Contents]

\* --------------------------------------------------------------- variables
VARIABLES
    state,           \* GraphState channel values held by the engine
    node,            \* node the engine executes next (END when finished)
    status,          \* "running" | "done" | "key_error" | "error" | "recursion_error"
    steps,           \* node executions so far in this run
    max_iterations,  \* settings.SUPERVISOR_MAX_ITERATIONS
    last,            \* node executed by the last step ("none" initially)
    branch,          \* path the last node execution took
    sup_calls,       \* number of Supervisor invocations so far
    last_out,        \* model answer the last node execution consumed
    probe,           \* input of a direct call of decide_next_agent
    probe_out,       \* its result ("unset" before the call)
    llm_in,          \* what the model and the lookups answer inside one run_llm call
    llm_out,         \* what that run_llm call produced
    store,           \* the session the session store holds for the request's id
    session,         \* the SessionState object the chat handler works on
    backend,         \* "redis" | "memory": where the session manager keeps sessions
    chat,            \* position of the chat handler: "idle" | "invoked" | "responded" | "failed"
    http_response,   \* what the chat handler sent back to its caller
    peer,            \* a second chat request for the same session id, on another worker
    lookup_in,       \* input of a direct call of a lookup tool
    lookup_out,      \* its result
    clock,           \* time, in ticks
    entry,           \* the session manager's entry for one session id, with its timestamps
    call_in,         \* input of a direct call of a function of the state or handler modules
    call_out         \* its result

vars == <<state, node, status, steps, max_iterations, last, branch, sup_calls,
          last_out, probe, probe_out, llm_in, llm_out, store, session, backend, chat,
          http_response, peer, lookup_in, lookup_out, clock, entry,
          call_in, call_out>>

engine_vars ==
    <<state, node, status, steps, max_iterations, last, branch, sup_calls, last_out>>
probe_vars == <<probe, probe_out>>
llm_vars == <<llm_in, llm_out>>
chat_vars == <<store, session, backend, chat>>
lookup_vars == <<lookup_in, lookup_out>>
expiry_vars == <<clock, entry>>
call_vars == <<call_in, call_out>>
ext_vars == <<http_response, peer, lookup_vars, expiry_vars, call_vars>>

\* ------------------------------------------------------------ graph state
\* src/src/graph/state.py: create_initial_state
create_initial_state(user_input, customer_id, policy_number, claim_id) ==
    [messages |-> << >>,
     user_input |-> user_input,
     conversation_history |-> << <<"User", <<user_input>> >> >>,
     n_iteration |-> 0,
     customer_id |-> customer_id,
     policy_number |-> policy_number,
     claim_id |-> claim_id,
     next_agent |-> "supervisor_agent",
     task |-> "Help user with their query",
     justification |-> None,
     end_conversation |-> FALSE,
     needs_clarification |-> FALSE,
     clarification_question |-> None,
     user_clarification |-> None,
     retrieved_faqs |-> None,
     requires_human_escalation |-> FALSE,
     escalation_reason |-> None,
     final_answer |-> None]

\* A state update that keeps nothing but the fields it is given.
update_state_Replaces(s, updates) ==
    updates

\* src/src/graph/state.py: update_state (Python: state.update(updates)).
update_state(s, updates) ==
    updates @@ s

\* Set or replace key k of dictionary d (Python: d[k] = v, {**d, k: v}).
DictSet(d, k, v) ==
    (k :> v) @@ d

\* Remove key k from dictionary d (Python: d.pop(k, None)).
DictPop(d, k) ==
    [x \in (DOMAIN d) \ {k} |-> d[x]]

\* Python: d.get(k, default)
DictGet(d, k, default) ==
    IF k \in DOMAIN d THEN d[k] ELSE default

\* A message of the `messages` channel.  id = 0 is a message that has no id
\* yet (a (role, content) tuple a handler has just built).
NewMessage(role, content) == [id |-> 0, role |-> role, content |-> content]

\* src/src/graph/state.py:22: messages: Annotated[List[Any], add_messages].
\* The reducer gives an id to every message of `left` and of `right` that
\* has none, then merges: a message of `right` whose id is already in `left`
\* replaces that entry, any other message of `right` is appended.  Ids are
\* modelled by positions (no message is ever removed, so a position is never
\* reused).
add_messages(left, right) ==
    LET n == Len(left)
        Known(m) == m.id \in 1..n
        IsNew(m) == ~Known(m)
        fresh == SelectSeq(right, IsNew)
    IN [i \in 1..(n + Len(fresh)) |->
            IF i <= n
               THEN IF \E j \in 1..Len(right) : right[j].id = i
                       THEN right[CHOOSE j \in 1..Len(right) :
                                    /\ right[j].id = i
                                    /\ \A k \in (j + 1)..Len(right) : right[k].id # i]
                       ELSE [left[i] EXCEPT !.id = i]
               ELSE [fresh[i - n] EXCEPT !.id = i]]

\* The engine folds a node's returned dictionary into the channels.  `chan`
\* is the channel record as the node left it (a handler that appends to the
\* list object of `messages` in place has changed the channel's own list).
Merge(chan, ret) ==
    LET Last(k) == IF k \in DOMAIN ret THEN ret[k] ELSE chan[k]
    IN [messages |->
            IF "messages" \in DOMAIN ret
               THEN add_messages(chan.messages, ret.messages)
               ELSE chan.messages,
        user_input |-> Last("user_input"),
        conversation_history |-> Last("conversation_history"),
        n_iteration |-> Last("n_iteration"),
        customer_id |-> Last("customer_id"),
        policy_number |-> Last("policy_number"),
        claim_id |-> Last("claim_id"),
        next_agent |-> Last("next_agent"),
        task |-> Last("task"),
        justification |-> Last("justification"),
        end_conversation |-> Last("end_conversation"),
        needs_clarification |-> Last("needs_clarification"),
        clarification_question |-> Last("clarification_question"),
        user_clarification |-> Last("user_clarification"),
        retrieved_faqs |-> Last("retrieved_faqs"),
        requires_human_escalation |-> Last("requires_human_escalation"),
        escalation_reason |-> Last("escalation_reason"),
        final_answer |-> Last("final_answer")]

\* ---------------------------------------------------------------- Supervisor
\* The result of running a node: the dictionary it returns, or `raised`.
\* `inplace` is what the node appended to the list object of state["messages"]
\* itself; `path` names the branch the node took.
NodeResult(ret, path) == [raised |-> FALSE, ret |-> ret, inplace |-> << >>, path |-> path]
NodeRaised(path) == [raised |-> TRUE, ret |-> << >>, inplace |-> << >>, path |-> path]

EscalationNotice ==
    <<"Assistant", <<"It seems this issue requires human review. Escalating to a human support specialist.">> >>

\* Variant of json_loads_or_empty without the except clause: text that is
\* not JSON is not turned into the empty dictionary.
json_loads_or_empty_NoExcept(content) ==
    CASE content.json = "object" ->
            [isdict |-> TRUE,
             dict |-> [k \in {x \in {"next_agent", "task", "justification"} : content[x] # Absent}
                          |-> content[k]]]
      [] OTHER -> [isdict |-> FALSE, dict |-> << >>]

\* json.loads(message_content) followed by the except clause of
\* _route_request: text that is not JSON becomes the empty dictionary, a
\* JSON object becomes the dictionary of the keys it has, any other JSON
\* value (a number, a list, a string) is returned as it is.
json_loads_or_empty(content) ==
    CASE content.json = "invalid" -> [isdict |-> TRUE, dict |-> << >>]
      [] content.json = "object" ->
            [isdict |-> TRUE,
             dict |-> [k \in {x \in {"next_agent", "task", "justification"} : content[x] # Absent}
                          |-> content[k]]]
      [] OTHER -> [isdict |-> FALSE, dict |-> << >>]

\* A resolve step that does not consume an iteration.
handle_clarification_FreeOfCharge(s, n_iter) ==
    LET updated_conversation ==
            s.conversation_history
              \o << <<"Assistant", <<s.clarification_question>> >>,
                    <<"User", <<s.user_clarification>> >> >>
        updated_state ==
            DictSet(DictSet(DictSet(s, "needs_clarification", FALSE),
                            "conversation_history", updated_conversation),
                    "n_iteration", n_iter - 1)
    IN NodeResult(DictPop(DictPop(updated_state, "clarification_question"),
                          "user_clarification"),
                  "resolve")

\* src/src/agents/supervisor.py: SupervisorAgent._handle_clarification
handle_clarification(s, n_iter) ==
    LET updated_conversation ==
            s.conversation_history
              \o << <<"Assistant", <<s.clarification_question>> >>,
                    <<"User", <<s.user_clarification>> >> >>
        updated_state ==
            DictSet(DictSet(DictSet(s, "needs_clarification", FALSE),
                            "conversation_history", updated_conversation),
                    "n_iteration", n_iter)
    IN NodeResult(DictPop(DictPop(updated_state, "clarification_question"),
                          "user_clarification"),
                  "resolve")

\* A routing step whose ask_user path also names the next handler.
route_request_AskAlsoRoutes(s, n_iter, out) ==
    IF out.kind = "tool_call" /\ out.answer = NoAnswer
    THEN NodeRaised("ask")
    ELSE IF out.kind = "tool_call"
    THEN NodeResult(
             DictSet(DictSet(DictSet(DictSet(DictSet(DictSet(s,
                 "needs_clarification", TRUE),
                 "clarification_question", out.question),
                 "user_clarification", out.answer),
                 "conversation_history",
                     s.conversation_history
                       \o << <<"Assistant", <<out.question>> >>,
                             <<"User", <<out.answer>> >> >>),
                 "n_iteration", n_iter),
                 "next_agent", "general_help_agent"),
             "ask")
    ELSE LET parsed == json_loads_or_empty(out.content)
         IN IF ~parsed.isdict
            THEN NodeRaised("route")
            ELSE LET next_agent == DictGet(parsed.dict, "next_agent", "general_help_agent")
                     task == DictGet(parsed.dict, "task", "Assist the user with their query.")
                     justification == DictGet(parsed.dict, "justification", "")
                 IN NodeResult(
                        DictSet(DictSet(DictSet(DictSet(DictSet(s,
                            "next_agent", next_agent),
                            "task", task),
                            "justification", justification),
                            "conversation_history",
                                Append(s.conversation_history,
                                       <<"Assistant", <<"Routing to", next_agent, "for:", task>> >>)),
                            "n_iteration", n_iter),
                        "route")

\* src/src/agents/supervisor.py: SupervisorAgent._route_request
route_request(s, n_iter, out) ==
    IF out.kind = "tool_call" /\ out.answer = NoAnswer
    THEN NodeRaised("ask")
    ELSE IF out.kind = "tool_call"
    THEN LET updated_history ==
                s.conversation_history
                  \o << <<"Assistant", <<out.question>> >>, <<"User", <<out.answer>> >> >>
         IN NodeResult(
                DictSet(DictSet(DictSet(DictSet(DictSet(s,
                    "needs_clarification", TRUE),
                    "clarification_question", out.question),
                    "user_clarification", out.answer),
                    "conversation_history", updated_history),
                    "n_iteration", n_iter),
                "ask")
    ELSE LET parsed == json_loads_or_empty(out.content)
         IN IF ~parsed.isdict
            THEN NodeRaised("route")
            ELSE LET next_agent == DictGet(parsed.dict, "next_agent", "general_help_agent")
                     task == DictGet(parsed.dict, "task", "Assist the user with their query.")
                     justification == DictGet(parsed.dict, "justification", "")
                     updated_conversation ==
                        Append(s.conversation_history,
                               <<"Assistant", <<"Routing to", next_agent, "for:", task>> >>)
                 IN NodeResult(
                        DictSet(DictSet(DictSet(DictSet(DictSet(s,
                            "next_agent", next_agent),
                            "task", task),
                            "justification", justification),
                            "conversation_history", updated_conversation),
                            "n_iteration", n_iter),
                        "route")

\* Variant of SupervisorAgent.process that counts routing invocations only:
\* a pending clarification is resolved before the counter is touched.
SupervisorAgent_process_CountsRoutingOnly(s0, max_iter, out) ==
    IF s0.needs_clarification
    THEN handle_clarification(s0, s0.n_iteration)
    ELSE LET n_iter == s0.n_iteration + 1
             s == DictSet(s0, "n_iteration", n_iter)
         IN IF n_iter >= max_iter
            THEN NodeResult(
                     DictSet(DictSet(DictSet(DictSet(s,
                         "escalate_to_human", TRUE),
                         "conversation_history", Append(s.conversation_history, EscalationNotice)),
                         "next_agent", "human_escalation_agent"),
                         "n_iteration", n_iter),
                     "ceiling")
            ELSE route_request(s, n_iter, out)

\* src/src/agents/supervisor.py: SupervisorAgent.process
SupervisorAgent_process(s0, max_iter, out) ==
    LET n_iter == s0.n_iteration + 1
        s == DictSet(s0, "n_iteration", n_iter)
    IN IF n_iter >= max_iter
       THEN NodeResult(
                DictSet(DictSet(DictSet(DictSet(s,
                    "escalate_to_human", TRUE),
                    "conversation_history", Append(s.conversation_history, EscalationNotice)),
                    "next_agent", "human_escalation_agent"),
                    "n_iteration", n_iter),
                "ceiling")
       ELSE IF s.needs_clarification
            THEN handle_clarification(s, n_iter)
            ELSE route_request(s, n_iter, out)

\* ---------------------------------------------------------------- dispatcher
\* Variant of decide_next_agent that tests end_conversation before
\* needs_clarification.
decide_next_agent_EndFirst(s) ==
    IF DictGet(s, "end_conversation", FALSE) THEN "end"
    ELSE IF DictGet(s, "needs_clarification", FALSE) THEN "supervisor_agent"
    ELSE IF DictGet(s, "requires_human_escalation", FALSE) THEN "human_escalation_agent"
    ELSE DictGet(s, "next_agent", "general_help_agent")

\* src/src/graph/routing.py: decide_next_agent
decide_next_agent(s) ==
    IF DictGet(s, "needs_clarification", FALSE) THEN "supervisor_agent"
    ELSE IF DictGet(s, "end_conversation", FALSE) THEN "end"
    ELSE IF DictGet(s, "requires_human_escalation", FALSE) THEN "human_escalation_agent"
    ELSE DictGet(s, "next_agent", "general_help_agent")

\* A path map in which "end" leads to the escalation handler.
PathMap_EndToEscalation ==
    [x \in Specialists \cup {"supervisor_agent", "human_escalation_agent", "end"} |->
        IF x = "end" THEN "human_escalation_agent" ELSE x]

\* src/src/graph/workflow.py:50-62: the path map of the conditional edges
\* that leave the supervisor node.
PathMap ==
    [x \in Specialists \cup {"supervisor_agent", "human_escalation_agent", "end"} |->
        IF x = "end" THEN "final_answer_agent" ELSE x]

\* Variant of the unconditional edges in which final_answer_agent leads to
\* general_help_agent instead of END.
FixedEdge_FinalAnswerNotTerminal(n) ==
    IF n \in Specialists THEN "supervisor_agent"
    ELSE IF n = "final_answer_agent" THEN "general_help_agent"
    ELSE END

\* src/src/graph/workflow.py:65-76: the unconditional edges.
FixedEdge(n) ==
    IF n \in Specialists THEN "supervisor_agent" ELSE END

\* src/src/graph/workflow.py:35-46: the nodes of the graph and its entry
\* point.
Nodes == Specialists \cup {"supervisor_agent", "human_escalation_agent", "final_answer_agent"}
EntryPoint == "supervisor_agent"

\* ------------------------------------------------- the monolithic program
\* A monolithic dispatcher that tests end_conversation first.
agent_decide_next_agent_EndFirst(s) ==
    IF DictGet(s, "end_conversation", FALSE) THEN "end"
    ELSE IF DictGet(s, "needs_clarification", FALSE) THEN "supervisor_agent"
    ELSE IF DictGet(s, "requires_human_escalation", FALSE) THEN "human_escalation_agent"
    ELSE DictGet(s, "next_agent", "general_help_agent")

\* src/agent.py:151-162: decide_next_agent of the monolithic program.
agent_decide_next_agent(s) ==
    IF DictGet(s, "needs_clarification", FALSE) THEN "supervisor_agent"
    ELSE IF DictGet(s, "end_conversation", FALSE) THEN "end"
    ELSE IF DictGet(s, "requires_human_escalation", FALSE) THEN "human_escalation_agent"
    ELSE DictGet(s, "next_agent", "general_help_agent")

\* src/agent.py:165-203: create_langgraph_app: nodes, entry point, the
\* path map of the supervisor's conditional edges, the unconditional edges.
agent_Nodes ==
    {"supervisor_agent", "policy_agent", "billing_agent", "claims_agent",
     "general_help_agent", "human_escalation_agent", "final_answer_agent"}
agent_EntryPoint == "supervisor_agent"
agent_PathMap ==
    [x \in {"supervisor_agent", "policy_agent", "billing_agent", "claims_agent",
            "human_escalation_agent", "general_help_agent", "end"} |->
        IF x = "end" THEN "final_answer_agent" ELSE x]
agent_FixedEdge(n) ==
    IF n \in {"policy_agent", "billing_agent", "claims_agent", "general_help_agent"}
       THEN "supervisor_agent"
       ELSE END

\* ------------------------------------------------------------------ handlers
\* src/src/agents/base.py: BaseAgent.add_message.  The handler appends the
\* (role, content) tuple to the list object it read from the state, and
\* returns the state holding that same list.
add_message(s, role, content) ==
    [raised |-> FALSE,
     ret |-> DictSet(s, "messages", Append(s.messages, NewMessage(role, content))),
     inplace |-> << NewMessage(role, content) >>,
     path |-> "handler"]

\* A policy handler that also declares the conversation finished.
PolicyAgent_process_EndsConversation(s, result) ==
    LET added == add_message(s, "assistant", result)
    IN [added EXCEPT !.ret = DictSet(added.ret, "end_conversation", TRUE)]

\* src/src/agents/policy_agent.py: PolicyAgent.process
PolicyAgent_process(s, result) ==
    add_message(s, "assistant", result)

\* A claims handler that also publishes its result as the final answer.
ClaimsAgent_process_SetsFinalAnswer(s, result) ==
    LET added == add_message(s, "assistant", result)
    IN [added EXCEPT !.ret = DictSet(added.ret, "final_answer", result)]

\* src/src/agents/claims_agent.py: ClaimsAgent.process
ClaimsAgent_process(s, result) ==
    add_message(s, "assistant", result)

\* A billing handler that writes policy_number without looking at the value
\* the state already holds.
BillingAgent_process_ForgetsPolicy(s, result) ==
    LET added == add_message(s, "assistant", result)
        updated_state == added.ret
        with_policy == DictSet(updated_state, "policy_number", None)
        with_customer ==
            IF s.customer_id # None
               THEN DictSet(with_policy, "customer_id", s.customer_id)
               ELSE with_policy
    IN [added EXCEPT !.ret =
            DictSet(with_customer, "conversation_history",
                    Append(s.conversation_history, <<"Billing Agent", <<result>> >>))]

\* src/src/agents/billing_agent.py: BillingAgent.process
BillingAgent_process(s, result) ==
    LET added == add_message(s, "assistant", result)
        updated_state == added.ret
        with_policy ==
            IF s.policy_number # None
               THEN DictSet(updated_state, "policy_number", s.policy_number)
               ELSE updated_state
        with_customer ==
            IF s.customer_id # None
               THEN DictSet(with_policy, "customer_id", s.customer_id)
               ELSE with_policy
    IN [added EXCEPT !.ret =
            DictSet(with_customer, "conversation_history",
                    Append(s.conversation_history, <<"Billing Agent", <<result>> >>))]

\* src/src/agents/general_help_agent.py: GeneralHelpAgent.process.
\* `retrieval` is the outcome of vector_store.query: "ok" or "raises".  When
\* the query raises, the except clause sets faq_context only, so the name
\* `results` read after the model call is unbound and the read raises.
GeneralHelpAgent_process(s, retrieval, final_answer) ==
    LET added == add_message(s, "assistant", final_answer)
    IN IF retrieval = "raises"
       THEN [added EXCEPT !.raised = TRUE]
       ELSE [added EXCEPT !.ret =
                DictSet(DictSet(added.ret, "retrieved_faqs", "metadatas"),
                        "conversation_history",
                        Append(s.conversation_history,
                               <<"General Help Agent", <<final_answer>> >>))]

\* An escalation handler that answers without raising the escalation flag.
HumanEscalationAgent_process_NoFlag(s, response) ==
    NodeResult(
        DictSet(DictSet(DictSet(s,
            "final_answer", response),
            "escalation_reason",
                DictGet(s, "escalation_reason", "Customer requested human assistance.")),
            "messages", << NewMessage("assistant", response) >>),
        "handler")

\* src/src/agents/human_escalation.py: HumanEscalationAgent.process
HumanEscalationAgent_process(s, response) ==
    NodeResult(
        DictSet(DictSet(DictSet(DictSet(s,
            "final_answer", response),
            "requires_human_escalation", TRUE),
            "escalation_reason",
                DictGet(s, "escalation_reason", "Customer requested human assistance.")),
            "messages", << NewMessage("assistant", response) >>),
        "handler")

\* Message texts as the words they consist of, and Python's str.lower on a
\* word.
Words == {"resp1", "resp2", "need", "needed", "clarification", "Clarification"}
lower(w) == IF w = "Clarification" THEN "clarification" ELSE w

\* Python: "clarification" in content.lower()
contains_clarification(content) ==
    \E i \in 1..Len(content) : lower(content[i]) = "clarification"

\* src/src/agents/final_answer.py:38-52: the loop over reversed(messages),
\* from position i downwards, with the responses collected so far.
RECURSIVE recent_responses(_, _, _)
recent_responses(messages, i, collected) ==
    IF i = 0 \/ Len(collected) >= 2 THEN collected
    ELSE IF ~contains_clarification(messages[i].content)
            THEN recent_responses(messages, i - 1, Append(collected, messages[i].content))
            ELSE recent_responses(messages, i - 1, collected)

NoResponseAvailable == << "No", "response", "available" >>

\* A scan that compares the text as it is written, without lower().
specialist_response_CaseSensitive(messages) ==
    LET plain == {i \in 1..Len(messages) :
                    \A k \in 1..Len(messages[i].content) :
                        messages[i].content[k] # "clarification"}
    IN IF plain = {} THEN NoResponseAvailable
       ELSE messages[CHOOSE i \in plain : \A j \in plain : j <= i].content

\* src/src/agents/final_answer.py:37-56: the specialist response the
\* summary is made from.
specialist_response(messages) ==
    LET collected == recent_responses(messages, Len(messages), << >>)
    IN IF collected # << >> THEN collected[1] ELSE NoResponseAvailable

\* A final-answer handler that keeps only its own line of the history.
FinalAnswerAgent_process_HistoryReset(s, final_answer) ==
    NodeResult(
        DictSet(DictSet(DictSet(DictSet(s,
            "final_answer", final_answer),
            "end_conversation", TRUE),
            "conversation_history", << <<"Assistant", <<final_answer>> >> >>),
            "messages", << NewMessage("assistant", final_answer) >>),
        "handler")

\* src/src/agents/final_answer.py: FinalAnswerAgent.process
FinalAnswerAgent_process(s, final_answer) ==
    NodeResult(
        DictSet(DictSet(DictSet(DictSet(s,
            "final_answer", final_answer),
            "end_conversation", TRUE),
            "conversation_history",
                Append(s.conversation_history, <<"Assistant", <<final_answer>> >>)),
            "messages", << NewMessage("assistant", final_answer) >>),
        "handler")

\* ------------------------------------------------------------- model gateway
\* What a tool hands back: a row (or rows) of data, or an {"error": text}
\* object.
DataPayload(d) == [kind |-> "data", text |-> d]
ErrorPayload(msg) == [kind |-> "error", text |-> msg]

\* The arguments string of a tool call, as the model wrote it:
\*   "policy"     a JSON object with the key policy_number
\*   "empty"      no arguments (None, "" or "{}")
\*   "wrong_keys" a JSON object with a key the function does not take
\*   "not_json"   text that is not JSON
ArgumentStrings == {"policy", "empty", "wrong_keys", "not_json"}

\* What the database does when the tool queries it: the query finds rows,
\* finds none or raises, or connect_db itself raises.
Lookups == {"found", "not_found", "raises", "connect_raises"}

ToolCalls ==
    [name : {"get_billing_info", "get_payment_history", "unknown_tool"},
     arguments : ArgumentStrings,
     lookup : Lookups]

ToolCallSeqs == UNION {[1..n -> ToolCalls] : n \in 1..MaxToolCalls}

\* One run of the gateway as seen from the handler: the model's first
\* answer is plain text `content`, or tool calls, after which its second
\* answer is `second`.
LlmRuns ==
    [first : {"text"}, tool_calls : {<< >>}, content : Texts, second : {None}]
    \cup
    [first : {"tool_calls"}, tool_calls : ToolCallSeqs, content : {None}, second : Texts]

NoLlmRun == [first |-> "none", tool_calls |-> << >>, content |-> None, second |-> None]
NoLlmResult == [done |-> FALSE, raised |-> FALSE, content |-> None, tool_messages |-> << >>]

\* src/src/tools/billing_tools.py: get_billing_info.  Both parameters have
\* defaults, so a call without arguments is answered with an error object.
get_billing_info(arguments, lookup) ==
    IF lookup = "connect_raises" THEN ErrorPayload("Database error")
    ELSE IF arguments = "empty"
       THEN ErrorPayload("Either policy_number or customer_id must be provided")
    ELSE IF lookup = "raises" THEN ErrorPayload("Database error")
    ELSE IF lookup = "found" THEN DataPayload("row")
    ELSE ErrorPayload("Billing information not found")

\* src/src/tools/billing_tools.py: get_payment_history.  No rows and a
\* failing query both give the empty list.
get_payment_history(arguments, lookup) ==
    IF lookup = "found" THEN DataPayload("rows") ELSE DataPayload("[]")

\* src/src/tools/policy_tools.py: get_policy_details.  The whole body is
\* inside the try; a missing row and an exception both give an error object.
get_policy_details(policy_number, lookup) ==
    IF lookup \in {"connect_raises", "raises"} THEN ErrorPayload("Database error")
    ELSE IF lookup = "found" THEN DataPayload("row")
    ELSE ErrorPayload("Policy not found")

\* src/src/tools/policy_tools.py: get_auto_policy_details.
get_auto_policy_details(policy_number, lookup) ==
    IF lookup \in {"connect_raises", "raises"} THEN ErrorPayload("Database error")
    ELSE IF lookup = "found" THEN DataPayload("row")
    ELSE ErrorPayload("Auto policy details not found")

\* A claims lookup that lets a database failure escape to its caller.
get_claim_status_Unguarded(claim_id, policy_number, lookup) ==
    IF lookup \in {"connect_raises", "raises"}
       THEN [kind |-> "raised", text |-> "OperationalError"]
    ELSE IF claim_id # None
       THEN IF lookup = "found" THEN DataPayload("row")
                                ELSE ErrorPayload("Claim not found")
    ELSE IF policy_number # None
       THEN IF lookup = "found" THEN DataPayload("rows")
                                ELSE ErrorPayload("Claim not found")
    ELSE ErrorPayload("Claim not found")

\* src/src/tools/claims_tools.py: get_claim_status.  A claim id is looked up
\* alone (the policy number is an elif); without either argument no query
\* is made and the answer is the not-found error.
get_claim_status(claim_id, policy_number, lookup) ==
    IF lookup = "connect_raises" THEN ErrorPayload("Database error")
    ELSE IF claim_id # None
       THEN IF lookup = "raises" THEN ErrorPayload("Database error")
            ELSE IF lookup = "found" THEN DataPayload("row")
            ELSE ErrorPayload("Claim not found")
    ELSE IF policy_number # None
       THEN IF lookup = "raises" THEN ErrorPayload("Database error")
            ELSE IF lookup = "found" THEN DataPayload("rows")
            ELSE ErrorPayload("Claim not found")
    ELSE ErrorPayload("Claim not found")

\* The tool_functions BillingAgent.process hands to run_llm.
BillingToolFunctions == {"get_billing_info", "get_payment_history"}

\* src/src/utils/llm_client.py:107-116: look the function up and call it
\* with the parsed arguments; whatever the call raises becomes an error
\* object (a keyword the function does not take, or a missing required
\* parameter, raises TypeError).
execute_tool_call(tc) ==
    IF tc.name \notin BillingToolFunctions THEN ErrorPayload("Tool not implemented")
    ELSE IF tc.arguments = "wrong_keys" THEN ErrorPayload("TypeError")
    ELSE IF tc.name = "get_billing_info" THEN get_billing_info(tc.arguments, tc.lookup)
    ELSE IF tc.arguments = "empty" THEN ErrorPayload("TypeError")
    ELSE get_payment_history(tc.arguments, tc.lookup)

\* src/src/utils/llm_client.py: LLMClient.run_llm.  Without tool calls the
\* first answer's content is returned.  Otherwise every call's arguments
\* string is parsed with json.loads (line 106, before the try block that
\* guards the call itself): text that is not JSON raises, and the outer
\* handler re-raises.  When all calls were executed the tool messages are
\* sent back and the second answer's content is returned.
run_llm(run) ==
    IF run.first = "text"
       THEN [done |-> TRUE, raised |-> FALSE, content |-> run.content,
             tool_messages |-> << >>]
    ELSE IF \E i \in 1..Len(run.tool_calls) : run.tool_calls[i].arguments = "not_json"
       THEN [done |-> TRUE, raised |-> TRUE, content |-> None, tool_messages |-> << >>]
    ELSE [done |-> TRUE, raised |-> FALSE, content |-> run.second,
          tool_messages |-> [i \in 1..Len(run.tool_calls) |->
                                execute_tool_call(run.tool_calls[i])]]

\* ------------------------------------------------------------- session layer
NoContext == [customer_id |-> None, policy_number |-> None, claim_id |-> None]

\* No session: the store has nothing under the id, or no handler is at work.
\* SessionState.graph_state before any turn has written it.
NoGraphState == [n_iteration |-> 0, end_conversation |-> FALSE, next_agent |-> None]

NoSession ==
    [exists |-> FALSE, messages |-> << >>, context |-> NoContext,
     graph_state |-> NoGraphState, is_active |-> TRUE,
     conversation_complete |-> FALSE]

\* src/src/session/manager.py: SessionManager.create_session builds this
\* SessionState (and stores it).
NewSession ==
    [exists |-> TRUE, messages |-> << >>, context |-> NoContext,
     graph_state |-> NoGraphState, is_active |-> TRUE,
     conversation_complete |-> FALSE]

\* src/src/session/models.py: SessionState.add_message
Session_add_message(sess, role, content) ==
    [sess EXCEPT !.messages = Append(sess.messages, [role |-> role, content |-> content])]

\* src/src/session/models.py: SessionState.update_context: a field is set
\* from the keyword of its name unless the value is None.
Session_update_context(sess, kwargs) ==
    [sess EXCEPT !.context =
        [customer_id |-> IF kwargs.customer_id # None
                            THEN kwargs.customer_id ELSE sess.context.customer_id,
         policy_number |-> IF kwargs.policy_number # None
                            THEN kwargs.policy_number ELSE sess.context.policy_number,
         claim_id |-> IF kwargs.claim_id # None
                            THEN kwargs.claim_id ELSE sess.context.claim_id]]

\* A completion mark that leaves the session active.
Session_mark_complete_KeepsActive(sess) ==
    [sess EXCEPT !.conversation_complete = TRUE]

\* src/src/session/models.py: SessionState.mark_complete
Session_mark_complete(sess) ==
    [sess EXCEPT !.conversation_complete = TRUE, !.is_active = FALSE]

\* src/src/session/models.py: SessionState.get_conversation_history: one
\* "User: ..." or "Assistant: ..." line per stored message.
get_conversation_history(sess) ==
    [i \in 1..Len(sess.messages) |->
        << IF sess.messages[i].role = "user" THEN "User" ELSE "Assistant",
           << sess.messages[i].content >> >>]

\* Python's `a or b` on values that are None or non-empty strings.
Or(a, b) == IF a # None THEN a ELSE b

\* src/src/api/routes/chat.py:83-114: the session work before the workflow
\* is started, for a request with message user_input and context `context`
\* when the store holds `stored` under the request's session id.
\*   created       : what get_or_create returned (and, if new, stored)
\*   session       : the session with the user message and context added
\*   initial_state : the state handed to workflow.invoke
chat_begin(stored, context, user_input) ==
    LET created == IF stored.exists THEN stored ELSE NewSession
        with_user == Session_add_message(created, "user", user_input)
        with_context == Session_update_context(with_user, context)
        initial_state ==
            create_initial_state(user_input,
                Or(with_context.context.customer_id, context.customer_id),
                Or(with_context.context.policy_number, context.policy_number),
                Or(with_context.context.claim_id, context.claim_id))
    IN [created |-> created,
        session |-> with_context,
        initial_state |-> DictSet(initial_state, "conversation_history",
                                  get_conversation_history(with_context))]

\* src/src/api/routes/chat.py:139-152: the reply text taken from the
\* workflow's result.
extract_final_answer(result) ==
    IF result.final_answer # None THEN result.final_answer
    ELSE IF Len(result.messages) > 0
            THEN result.messages[Len(result.messages)].content
            ELSE None

Apology == "I apologize, but I couldn't generate a response. Please try again."

\* src/src/api/routes/chat.py:164-203: the session as it is saved after the
\* workflow has returned `result`.
chat_respond(sess, result) ==
    LET conversation_complete ==
            result.end_conversation \/ result.requires_human_escalation
        with_reply ==
            Session_add_message(sess, "assistant",
                                Or(extract_final_answer(result), Apology))
        with_context ==
            [with_reply EXCEPT !.context =
                [customer_id |-> Or(result.customer_id, sess.context.customer_id),
                 policy_number |-> Or(result.policy_number, sess.context.policy_number),
                 claim_id |-> Or(result.claim_id, sess.context.claim_id)]]
        completed == IF conversation_complete
                        THEN Session_mark_complete(with_context) ELSE with_context
    IN [completed EXCEPT !.graph_state =
            [n_iteration |-> result.n_iteration,
             end_conversation |-> conversation_complete,
             next_agent |-> result.next_agent]]

\* The correlation identifier the middleware gave the request; it is sent
\* back in the X-Request-ID header of every response (src/src/main.py:176).
RequestId == "req1"

\* Nothing has been sent back yet.
NoResponse ==
    [status_code |-> 0, message |-> None, error |-> None, detail |-> None,
     request_id |-> None, requires_clarification |-> FALSE,
     conversation_complete |-> FALSE]

\* src/src/api/routes/chat.py:218-229: the ChatResponse of a turn whose
\* workflow returned `result`.
ChatResponse(result) ==
    [status_code |-> 200,
     message |-> Or(extract_final_answer(result), Apology),
     error |-> None, detail |-> None, request_id |-> RequestId,
     requires_clarification |-> result.needs_clarification,
     conversation_complete |->
        result.end_conversation \/ result.requires_human_escalation]

\* str(e) of the exception workflow.invoke raised, by the way the run failed.
ExceptionText(failure) ==
    IF failure = "key_error" THEN "KeyError: the routing target"
    ELSE IF failure = "recursion_error" THEN "GraphRecursionError: recursion limit reached"
    ELSE "text of the exception the node raised"

\* src/src/api/routes/chat.py:232-249: the HTTPException raised when the
\* turn failed; its detail carries str(e).
ErrorResponse(failure) ==
    [status_code |-> 500, message |-> None,
     error |-> "Failed to process chat request",
     detail |-> ExceptionText(failure),
     request_id |-> RequestId, requires_clarification |-> FALSE,
     conversation_complete |-> FALSE]

\* No second request.
NoPeer ==
    [chat |-> "idle", session |-> NoSession,
     initial_state |-> create_initial_state("u2", None, None, None)]

\* No lookup tool is being called directly.
NoLookup == [tool |-> "none", policy_number |-> None, customer_id |-> None,
             claim_id |-> None, database |-> "up"]
NoLookupResult == [done |-> FALSE, raised |-> FALSE, kind |-> "none", text |-> None]

\* No function is called directly.
NoCall == [fn |-> "none"]
NoCallResult == [done |-> FALSE, value |-> None]

\* The session manager holds no entry for the id.
NoEntry == [present |-> FALSE, expires_at |-> 0, key_deadline |-> 0, last_activity |-> 0]

\* Values of the variables of the layers a specification does not exercise.
NoResponseYet == http_response = NoResponse
NoSecondRequest == peer = NoPeer
NoDirectLookup == lookup_in = NoLookup /\ lookup_out = NoLookupResult
NoExpiry == clock = 0 /\ entry = NoEntry
NoDirectCall == call_in = NoCall /\ call_out = NoCallResult

\* -------------------------------------------------------------------- engine
\* Entity references a session supplies to a run (chat.py:107-109).
EntityProfiles ==
    {[customer_id |-> None, policy_number |-> None, claim_id |-> None],
     [customer_id |-> "CUST1", policy_number |-> "POL1", claim_id |-> "CLM1"]}

\* A fixed input of decide_next_agent, held while the workflow runs.
NoProbe ==
    [needs_clarification |-> FALSE, end_conversation |-> FALSE,
     requires_human_escalation |-> FALSE, next_agent |-> "supervisor_agent"]

\* src/src/api/routes/chat.py:103-127: the state a run starts from, and the
\* entry point set by src/src/graph/workflow.py:46.
Init ==
    /\ \E e \in EntityProfiles :
            state = create_initial_state("u1", e.customer_id, e.policy_number, e.claim_id)
    /\ max_iterations \in 1..MaxSetting
    /\ node = "supervisor_agent"
    /\ status = "running"
    /\ steps = 0
    /\ last = "none"
    /\ branch = "none"
    /\ sup_calls = 0
    /\ last_out = NoOutput
    /\ probe = NoProbe
    /\ probe_out = "unset"
    /\ llm_in = NoLlmRun
    /\ llm_out = NoLlmResult
    /\ store = NoSession
    /\ session = NoSession
    /\ backend = "none"
    /\ chat = "none"
    /\ NoResponseYet
    /\ NoSecondRequest
    /\ NoDirectLookup
    /\ NoExpiry
    /\ NoDirectCall

\* One superstep of the engine: node n has run with result res.  The
\* returned dictionary is folded into the channels; after the supervisor the
\* dispatcher's answer is looked up in the path map (a value that is not a
\* key of the map makes the run fail), after any other node the fixed edge
\* is followed.
Superstep(n, res) ==
    LET chan == [state EXCEPT !.messages = state.messages \o res.inplace]
        new == Merge(chan, res.ret)
        d == decide_next_agent(new)
    IN /\ steps' = steps + 1
       /\ last' = n
       /\ branch' = IF res.raised THEN "raised" ELSE res.path
       /\ UNCHANGED <<max_iterations, probe_vars, llm_in, chat_vars, ext_vars>>
       /\ IF res.raised
             THEN /\ status' = "error"
                  /\ UNCHANGED <<state, node>>
             ELSE /\ state' = new
                  /\ IF n = "supervisor_agent"
                        THEN IF d \in DOMAIN PathMap
                               THEN /\ node' = PathMap[d]
                                    /\ status' = "running"
                               ELSE /\ node' = node
                                    /\ status' = "key_error"
                        ELSE /\ node' = FixedEdge(n)
                             /\ status' = IF FixedEdge(n) = END THEN "done" ELSE "running"

\* An engine that may run any node, whichever one is scheduled.
CanRun_AnyNode(n) ==
    /\ status = "running"
    /\ steps < RecursionLimit

\* The engine runs node n next: the run is live, n is the scheduled node
\* and the recursion limit is not used up.
CanRun(n) ==
    /\ status = "running"
    /\ node = n
    /\ steps < RecursionLimit

SupervisorStep ==
    /\ CanRun("supervisor_agent")
    /\ sup_calls' = sup_calls + 1
    /\ UNCHANGED llm_out
    /\ \E out \in ModelOutputs :
          LET res == SupervisorAgent_process(state, max_iterations, out)
          IN /\ Superstep("supervisor_agent", res)
             /\ last_out' = IF res.path \in {"ceiling", "resolve"} THEN NoOutput ELSE out

PolicyStep ==
    /\ CanRun("policy_agent")
    /\ UNCHANGED <<sup_calls, llm_out>>
    /\ last_out' = TextOutput
    /\ \E result \in Texts :
          Superstep("policy_agent", PolicyAgent_process(state, result))

BillingStep ==
    /\ CanRun("billing_agent")
    /\ UNCHANGED <<sup_calls, llm_out>>
    /\ last_out' = TextOutput
    /\ \E result \in Texts :
          Superstep("billing_agent", BillingAgent_process(state, result))

ClaimsStep ==
    /\ CanRun("claims_agent")
    /\ UNCHANGED <<sup_calls, llm_out>>
    /\ last_out' = TextOutput
    /\ \E result \in Texts :
          Superstep("claims_agent", ClaimsAgent_process(state, result))

GeneralHelpStep ==
    /\ CanRun("general_help_agent")
    /\ UNCHANGED <<sup_calls, llm_out>>
    /\ last_out' = TextOutput
    /\ \E retrieval \in {"ok", "raises"}, result \in Texts :
          Superstep("general_help_agent", GeneralHelpAgent_process(state, retrieval, result))

HumanEscalationStep ==
    /\ CanRun("human_escalation_agent")
    /\ UNCHANGED <<sup_calls, llm_out>>
    /\ last_out' = TextOutput
    /\ \E response \in Texts :
          Superstep("human_escalation_agent", HumanEscalationAgent_process(state, response))

FinalAnswerStep ==
    /\ CanRun("final_answer_agent")
    /\ UNCHANGED <<sup_calls, llm_out>>
    /\ last_out' = TextOutput
    /\ \E final_answer \in Texts :
          Superstep("final_answer_agent", FinalAnswerAgent_process(state, final_answer))

\* The run has used up its supersteps without reaching END: the engine
\* raises instead of running another node.
RecursionLimitStep ==
    /\ status = "running"
    /\ steps = RecursionLimit
    /\ status' = "recursion_error"
    /\ UNCHANGED <<state, node, steps, max_iterations, last, branch, sup_calls, last_out,
                   probe_vars, llm_vars, chat_vars, ext_vars>>

Next ==
    \/ SupervisorStep
    \/ PolicyStep
    \/ BillingStep
    \/ ClaimsStep
    \/ GeneralHelpStep
    \/ HumanEscalationStep
    \/ FinalAnswerStep
    \/ RecursionLimitStep

Spec == Init /\ [][Next]_vars

\* The engine takes a step whenever one is possible: a run is a single
\* thread that is never suspended for ever between two nodes.
FairSpec == Spec /\ WF_vars(Next)

\* ------------------------------------------------- direct calls of the dispatcher
\* States handed to decide_next_agent directly (as src/test_phase1.py:324-331
\* does): every combination of the three flags with every next_agent value,
\* the key next_agent missing included.
ProbeStates ==
    [needs_clarification : BOOLEAN, end_conversation : BOOLEAN,
     requires_human_escalation : BOOLEAN,
     next_agent : HandlerNames \cup {"supervisor_agent", "end", "unknown_agent", None}]
    \cup
    [needs_clarification : BOOLEAN, end_conversation : BOOLEAN,
     requires_human_escalation : BOOLEAN]

InitDispatch ==
    /\ state = create_initial_state("u1", None, None, None)
    /\ max_iterations = DefaultMaxIterations
    /\ node = "supervisor_agent"
    /\ status = "running"
    /\ steps = 0
    /\ last = "none"
    /\ branch = "none"
    /\ sup_calls = 0
    /\ last_out = NoOutput
    /\ probe \in ProbeStates
    /\ probe_out = "unset"
    /\ llm_in = NoLlmRun
    /\ llm_out = NoLlmResult
    /\ store = NoSession
    /\ session = NoSession
    /\ backend = "none"
    /\ chat = "none"
    /\ NoResponseYet
    /\ NoSecondRequest
    /\ NoDirectLookup
    /\ NoExpiry
    /\ NoDirectCall

DispatchProbe ==
    /\ probe_out = "unset"
    /\ probe_out' = decide_next_agent(probe)
    /\ UNCHANGED <<engine_vars, probe, llm_vars, chat_vars, ext_vars>>

\* The same state handed to the monolithic program's dispatcher.
DispatchProbeMonolith ==
    /\ ~call_out.done
    /\ call_out' = [done |-> TRUE, value |-> agent_decide_next_agent(probe)]
    /\ UNCHANGED <<engine_vars, probe_vars, llm_vars, chat_vars, http_response, peer,
                   lookup_vars, expiry_vars, call_in>>

NextDispatch ==
    \/ DispatchProbe
    \/ DispatchProbeMonolith

DispatchSpec == InitDispatch /\ [][NextDispatch]_vars

\* --------------------------------------- the gateway inside the billing handler
\* The model's routing answer that sends a turn to the billing handler.
RoutedToBilling ==
    [kind |-> "text", question |-> None, answer |-> None,
     content |-> [json |-> "object", next_agent |-> "billing_agent",
                  task |-> "t1", justification |-> "j1"]]

\* The run stands where the Supervisor has just routed the turn to the
\* billing handler; the model's answers and the lookups' outcomes inside
\* the handler are drawn from LlmRuns.
InitTool ==
    /\ \E e \in EntityProfiles :
          LET s0 == create_initial_state("u1", e.customer_id, e.policy_number, e.claim_id)
          IN state = Merge(s0, SupervisorAgent_process(s0, DefaultMaxIterations,
                                                       RoutedToBilling).ret)
    /\ max_iterations = DefaultMaxIterations
    /\ node = "billing_agent"
    /\ status = "running"
    /\ steps = 1
    /\ last = "supervisor_agent"
    /\ branch = "route"
    /\ sup_calls = 1
    /\ last_out = RoutedToBilling
    /\ probe = NoProbe
    /\ probe_out = "unset"
    /\ llm_in \in LlmRuns
    /\ llm_out = NoLlmResult
    /\ store = NoSession
    /\ session = NoSession
    /\ backend = "none"
    /\ chat = "none"
    /\ NoResponseYet
    /\ NoSecondRequest
    /\ NoDirectLookup
    /\ NoExpiry
    /\ NoDirectCall

\* src/src/agents/billing_agent.py:80-104 with the gateway call spelled
\* out: when run_llm raises, process raises; otherwise its text is the
\* handler's result.
BillingToolStep ==
    /\ CanRun("billing_agent")
    /\ ~llm_out.done
    /\ UNCHANGED sup_calls
    /\ last_out' = TextOutput
    /\ LET r == run_llm(llm_in)
       IN /\ llm_out' = r
          /\ Superstep("billing_agent",
                       IF r.raised THEN NodeRaised("handler")
                                   ELSE BillingAgent_process(state, r.content))

NextTool == BillingToolStep

ToolSpec == InitTool /\ [][NextTool]_vars

\* ------------------------------------------------------------ the chat endpoint
\* Sessions an earlier, completed turn has left in the store: its user
\* message and the reply, the entity references it knew, and the
\* completion mark every turn that ends in a terminal node sets.
ExistingSessions ==
    {[exists |-> TRUE,
      messages |-> << [role |-> "user", content |-> "u1"],
                      [role |-> "assistant", content |-> "resp1"] >>,
      context |-> e,
      graph_state |-> [n_iteration |-> 2, end_conversation |-> TRUE,
                       next_agent |-> "end"],
      is_active |-> FALSE,
      conversation_complete |-> TRUE] : e \in EntityProfiles}

\* A request for one session id arrives; the store holds nothing or an
\* earlier session under that id.  The workflow has not been started.
InitChat ==
    /\ state = create_initial_state("u1", None, None, None)
    /\ max_iterations = DefaultMaxIterations
    /\ node = "supervisor_agent"
    /\ status = "idle"
    /\ steps = 0
    /\ last = "none"
    /\ branch = "none"
    /\ sup_calls = 0
    /\ last_out = NoOutput
    /\ probe = NoProbe
    /\ probe_out = "unset"
    /\ llm_in = NoLlmRun
    /\ llm_out = NoLlmResult
    /\ store \in {NoSession} \cup ExistingSessions
    /\ session = NoSession
    /\ backend \in {"redis", "memory"}
    /\ chat = "idle"
    /\ NoResponseYet
    /\ NoSecondRequest
    /\ NoDirectLookup
    /\ NoExpiry
    /\ NoDirectCall

\* src/src/api/routes/chat.py:78-127: up to the call of workflow.invoke.
\* get_or_create returns the stored session, or creates one and stores it
\* at once.  With the in-memory store the object the handler works on is
\* the stored object itself, so the user message and the context written
\* to it are in the store already; with Redis the handler works on a copy.
ChatBegin ==
    /\ chat = "idle"
    /\ \E context \in EntityProfiles :
          LET begun == chat_begin(store, context, "u1")
          IN /\ session' = begun.session
             /\ store' = IF backend = "memory" THEN begun.session ELSE begun.created
             /\ state' = begun.initial_state
    /\ chat' = "invoked"
    /\ status' = "running"
    /\ UNCHANGED <<node, steps, max_iterations, last, branch, sup_calls, last_out,
                   backend, probe_vars, llm_vars, ext_vars>>

\* src/src/api/routes/chat.py:129-229: workflow.invoke has returned.  The
\* reply is added to the session, the entity references the workflow found
\* are taken over, the session is saved and the ChatResponse is returned.
ChatRespond ==
    /\ chat = "invoked"
    /\ status = "done"
    /\ session' = chat_respond(session, state)
    /\ store' = chat_respond(session, state)
    /\ http_response' = ChatResponse(state)
    /\ chat' = "responded"
    /\ UNCHANGED <<engine_vars, backend, probe_vars, llm_vars, peer, lookup_vars,
                   expiry_vars, call_vars>>

\* src/src/api/routes/chat.py:232-249: workflow.invoke has raised; the
\* handler answers with status 500 and saves nothing.
ChatFail ==
    /\ chat = "invoked"
    /\ status \in {"error", "key_error", "recursion_error"}
    /\ http_response' = ErrorResponse(status)
    /\ chat' = "failed"
    /\ UNCHANGED <<engine_vars, store, session, backend, probe_vars, llm_vars, peer,
                   lookup_vars, expiry_vars, call_vars>>

NextChat ==
    \/ ChatBegin
    \/ SupervisorStep
    \/ PolicyStep
    \/ BillingStep
    \/ ClaimsStep
    \/ GeneralHelpStep
    \/ HumanEscalationStep
    \/ FinalAnswerStep
    \/ RecursionLimitStep
    \/ ChatRespond
    \/ ChatFail

ChatSpec == InitChat /\ [][NextChat]_vars

\* -------------------------------------------- two requests for one session id
\* API_WORKERS > 1 with the Redis store: a second worker process serves a
\* second request for the same session id while the first request is in
\* progress.  Each worker reads its own copy of the session from Redis.
InitConc ==
    /\ InitChat
    /\ backend = "redis"

\* The second request arrives after the first has begun: chat.py:83-114 on
\* the second worker.
PeerBegin ==
    /\ chat # "idle"
    /\ peer.chat = "idle"
    /\ \E context \in EntityProfiles :
          LET begun == chat_begin(store, context, "u2")
          IN /\ peer' = [chat |-> "waiting", session |-> begun.session,
                         initial_state |-> begun.initial_state]
             /\ store' = begun.created
    /\ UNCHANGED <<engine_vars, session, backend, chat, http_response, probe_vars, llm_vars,
                   lookup_vars, expiry_vars, call_vars>>

\* The second worker's workflow.invoke.  The two runs share nothing, so the
\* second one is followed once the first has ended.
PeerInvoke ==
    /\ chat \in {"responded", "failed"}
    /\ peer.chat = "waiting"
    /\ peer' = [peer EXCEPT !.chat = "invoked"]
    /\ state' = peer.initial_state
    /\ node' = "supervisor_agent"
    /\ status' = "running"
    /\ steps' = 0
    /\ last' = "none"
    /\ branch' = "none"
    /\ sup_calls' = 0
    /\ last_out' = NoOutput
    /\ UNCHANGED <<max_iterations, chat_vars, http_response, probe_vars, llm_vars,
                   lookup_vars, expiry_vars, call_vars>>

\* chat.py:129-229 on the second worker: its copy of the session is saved.
PeerRespond ==
    /\ peer.chat = "invoked"
    /\ status = "done"
    /\ peer' = [peer EXCEPT !.chat = "responded",
                            !.session = chat_respond(peer.session, state)]
    /\ store' = chat_respond(peer.session, state)
    /\ UNCHANGED <<engine_vars, session, backend, chat, http_response, probe_vars, llm_vars,
                   lookup_vars, expiry_vars, call_vars>>

\* chat.py:232-249 on the second worker.
PeerFail ==
    /\ peer.chat = "invoked"
    /\ status \in {"error", "key_error", "recursion_error"}
    /\ peer' = [peer EXCEPT !.chat = "failed"]
    /\ UNCHANGED <<engine_vars, chat_vars, http_response, probe_vars, llm_vars,
                   lookup_vars, expiry_vars, call_vars>>

NextConc ==
    \/ ChatBegin
    \/ SupervisorStep
    \/ PolicyStep
    \/ BillingStep
    \/ ClaimsStep
    \/ GeneralHelpStep
    \/ HumanEscalationStep
    \/ FinalAnswerStep
    \/ RecursionLimitStep
    \/ ChatRespond
    \/ ChatFail
    \/ PeerBegin
    \/ PeerInvoke
    \/ PeerRespond
    \/ PeerFail

ConcSpec == InitConc /\ [][NextConc]_vars

\* ------------------------------------------------------------- lookup tools
\* The workflow is not running (the lookup and the expiry runs).
NoWorkflow ==
    /\ state = create_initial_state("u1", None, None, None)
    /\ max_iterations = DefaultMaxIterations
    /\ node = "supervisor_agent"
    /\ status = "idle"
    /\ steps = 0
    /\ last = "none"
    /\ branch = "none"
    /\ sup_calls = 0
    /\ last_out = NoOutput
    /\ probe = NoProbe
    /\ probe_out = "unset"
    /\ llm_in = NoLlmRun
    /\ llm_out = NoLlmResult
    /\ store = NoSession
    /\ session = NoSession
    /\ chat = "none"

\* The rows the database holds: one customer with one policy (which has
\* auto details, a pending bill and payments) and one claim.
KnownIds == {"CUST1", "POL1", "CLM1"}

\* The database a tool finds: working, connect_db raises, or the query
\* raises.
DatabaseStates == {"up", "connect_fails", "query_fails"}

\* A direct call of a lookup tool with the arguments it takes.
LookupCalls ==
    [tool : {"get_policy_details", "get_auto_policy_details", "get_payment_history"},
     policy_number : {None, "POL1", "POL9"}, customer_id : {None},
     claim_id : {None}, database : DatabaseStates]
    \cup
    [tool : {"get_billing_info"},
     policy_number : {None, "POL1", "POL9"}, customer_id : {None, "CUST1", "CUST9"},
     claim_id : {None}, database : DatabaseStates]
    \cup
    [tool : {"get_claim_status"},
     policy_number : {None, "POL1", "POL9"}, customer_id : {None},
     claim_id : {None, "CLM1", "CLM9"}, database : DatabaseStates]

\* The key the tool's query selects by: the first argument that is given.
LookupKey(q) ==
    IF q.tool = "get_claim_status" /\ q.claim_id # None THEN q.claim_id
    ELSE IF q.policy_number # None THEN q.policy_number
    ELSE q.customer_id

\* What the database does for the call.
LookupOutcome(q) ==
    IF q.database = "connect_fails" THEN "connect_raises"
    ELSE IF q.database = "query_fails" THEN "raises"
    ELSE IF LookupKey(q) \in KnownIds THEN "found"
    ELSE "not_found"

\* The call of the tool q names.
call_lookup_tool(q) ==
    IF q.tool = "get_policy_details"
       THEN get_policy_details(q.policy_number, LookupOutcome(q))
    ELSE IF q.tool = "get_auto_policy_details"
       THEN get_auto_policy_details(q.policy_number, LookupOutcome(q))
    ELSE IF q.tool = "get_billing_info"
       THEN get_billing_info(
                IF q.policy_number = None /\ q.customer_id = None
                   THEN "empty" ELSE "policy",
                LookupOutcome(q))
    ELSE IF q.tool = "get_payment_history"
       THEN get_payment_history("policy", LookupOutcome(q))
    ELSE get_claim_status(q.claim_id, q.policy_number, LookupOutcome(q))

InitLookup ==
    /\ NoWorkflow
    /\ backend = "none"
    /\ lookup_in \in LookupCalls
    /\ lookup_out = NoLookupResult
    /\ NoResponseYet
    /\ NoSecondRequest
    /\ NoExpiry
    /\ NoDirectCall

LookupStep ==
    /\ ~lookup_out.done
    /\ LET r == call_lookup_tool(lookup_in)
       IN lookup_out' = [done |-> TRUE, raised |-> r.kind = "raised",
                         kind |-> r.kind, text |-> r.text]
    /\ UNCHANGED <<engine_vars, max_iterations, probe_vars, llm_vars, chat_vars,
                   http_response, peer, lookup_in, expiry_vars, call_vars>>

NextLookup == LookupStep

LookupSpec == InitLookup /\ [][NextLookup]_vars

\* ------------------------------------------------------------ session expiry
\* One session id in the session manager, over a clock of ticks.  `entry`
\* is what the store holds under the id: the session's expires_at and
\* last_activity, and for Redis the deadline of the key set by setex.
InitExpiry ==
    /\ NoWorkflow
    /\ backend \in {"redis", "memory"}
    /\ clock = 0
    /\ entry = NoEntry
    /\ NoResponseYet
    /\ NoSecondRequest
    /\ NoDirectLookup
    /\ NoDirectCall

ExpiryFrame ==
    UNCHANGED <<engine_vars, max_iterations, probe_vars, llm_vars, chat_vars,
                http_response, peer, lookup_vars, call_vars>>

\* src/src/session/manager.py: SessionManager._set_session.  Redis stores
\* the session with setex, which restarts the key's time to live; the
\* in-memory store keeps the object.
set_session(e, now, b) ==
    [e EXCEPT !.present = TRUE,
              !.key_deadline = IF b = "redis" THEN now + Ttl ELSE @]

\* src/src/session/manager.py: SessionManager.create_session (via
\* get_or_create, when the store holds nothing under the id).
CreateSession ==
    /\ ~entry.present
    /\ entry' = set_session([NoEntry EXCEPT !.expires_at = clock + Ttl,
                                            !.last_activity = clock],
                            clock, backend)
    /\ UNCHANGED clock
    /\ ExpiryFrame

\* src/src/session/manager.py: SessionManager.update_session, the commit of
\* a turn.
UpdateSession ==
    /\ entry.present
    /\ entry' = set_session([entry EXCEPT !.last_activity = clock], clock, backend)
    /\ UNCHANGED clock
    /\ ExpiryFrame

\* src/src/session/manager.py: SessionManager.refresh_ttl.
RefreshTtl ==
    /\ entry.present
    /\ entry' = set_session([entry EXCEPT !.expires_at = clock + Ttl,
                                          !.last_activity = clock],
                            clock, backend)
    /\ UNCHANGED clock
    /\ ExpiryFrame

\* Time passes.
Tick ==
    /\ clock < MaxClock
    /\ clock' = clock + 1
    /\ UNCHANGED entry
    /\ ExpiryFrame

\* Redis drops the key when its time to live has run out.
RedisExpire ==
    /\ backend = "redis"
    /\ entry.present
    /\ clock >= entry.key_deadline
    /\ entry' = NoEntry
    /\ UNCHANGED clock
    /\ ExpiryFrame

\* src/src/session/manager.py: SessionManager.cleanup_expired, called by
\* the background task of main.py.  With Redis it does nothing; in memory
\* it deletes the sessions whose expires_at has passed.
CleanupExpired ==
    /\ backend = "memory"
    /\ entry.present
    /\ entry.expires_at < clock
    /\ entry' = NoEntry
    /\ UNCHANGED clock
    /\ ExpiryFrame

NextExpiry ==
    \/ CreateSession
    \/ UpdateSession
    \/ RefreshTtl
    \/ Tick
    \/ RedisExpire
    \/ CleanupExpired

ExpirySpec == InitExpiry /\ [][NextExpiry]_vars

\* ------------------------------------------- direct calls of the final-answer scan
\* Texts a message may carry: two answers and two clarification artifacts,
\* one of them capitalised.
MessageTexts ==
    { <<"resp1">>, <<"resp2">>, <<"need", "clarification">>, <<"Clarification", "needed">> }

MessageLists ==
    UNION {[1..n -> [role : {"assistant"}, content : MessageTexts]] : n \in 0..MaxMessages}

InitSelect ==
    /\ NoWorkflow
    /\ backend = "none"
    /\ call_in \in [fn : {"specialist_response"}, messages : MessageLists]
    /\ call_out = NoCallResult
    /\ NoResponseYet
    /\ NoSecondRequest
    /\ NoDirectLookup
    /\ NoExpiry

CallFrame ==
    UNCHANGED <<engine_vars, probe_vars, llm_vars, chat_vars, http_response, peer,
                lookup_vars, expiry_vars>>

SelectStep ==
    /\ ~call_out.done
    /\ call_out' = [done |-> TRUE, value |-> specialist_response(call_in.messages)]
    /\ UNCHANGED call_in
    /\ CallFrame

NextSelect == SelectStep

SelectSpec == InitSelect /\ [][NextSelect]_vars

\* --------------------------------------------- how the state of a turn is built
\* Keyword arguments handed to update_state: the two of the test, a flag,
\* a counter with an entity reference, a key the state does not have, none.
UpdateSets ==
    { [next_agent |-> "billing_agent", task |-> "Get premium info"],
      [needs_clarification |-> TRUE],
      [n_iteration |-> 1, customer_id |-> "CUST2"],
      [timestamp |-> "t1"],
      << >> }

\* A direct call of create_initial_state, or the start of a chat turn for a
\* session id under which the store holds `stored`.
StateCalls ==
    [fn : {"create_initial_state"}, user_input : {"u1", "u2"},
     customer_id : {None, "CUST1", "CUST2"}, policy_number : {None, "POL1", "POL2"}]
    \cup
    [fn : {"chat_begin"}, user_input : {"u1", "u2"},
     stored : {NoSession} \cup ExistingSessions, context : EntityProfiles]

InitState ==
    /\ NoWorkflow
    /\ backend = "none"
    /\ call_in \in StateCalls
    /\ call_out = NoCallResult
    /\ NoResponseYet
    /\ NoSecondRequest
    /\ NoDirectLookup
    /\ NoExpiry

\* create_initial_state(user_input, customer_id=..., policy_number=...)
CallCreateInitialState ==
    /\ ~call_out.done
    /\ call_in.fn = "create_initial_state"
    /\ call_out' = [done |-> TRUE,
                    value |-> create_initial_state(call_in.user_input, call_in.customer_id,
                                                   call_in.policy_number, None)]
    /\ UNCHANGED call_in
    /\ CallFrame

\* src/src/api/routes/chat.py:83-114: the state chat() hands to the workflow.
CallChatBegin ==
    /\ ~call_out.done
    /\ call_in.fn = "chat_begin"
    /\ call_out' = [done |-> TRUE,
                    value |-> chat_begin(call_in.stored, call_in.context,
                                         call_in.user_input).initial_state]
    /\ UNCHANGED call_in
    /\ CallFrame

\* update_state(state, **updates) on the state just built.
CallUpdateState ==
    /\ call_out.done
    /\ call_in.fn = "create_initial_state"
    /\ \E updates \in UpdateSets :
          /\ call_in' = [fn |-> "update_state", updates |-> updates]
          /\ call_out' = [done |-> TRUE, value |-> update_state(call_out.value, updates)]
    /\ CallFrame

NextState ==
    \/ CallCreateInitialState
    \/ CallChatBegin
    \/ CallUpdateState

StateSpec == InitState /\ [][NextState]_vars

\* ===================================================================== claims
\* A step of the engine that executes node n.
Executes(n) == steps' = steps + 1 /\ last' = n

\* C1: every turn terminates.  Whatever the model answers to the Supervisor
\* (an ask_user call, routing JSON naming a handler or "end", or text that
\* is not JSON), and provided every external call returns, the engine
\* eventually executes a terminal node and stops.  Runs that leave the
\* claim's premises (a routing target outside the path map, a model answer
\* that is JSON but no object, a retrieval call that raises) end in
\* "key_error" or "error" and are not counted against it.
C1_EveryTurnTerminates ==
    <>(status \in {"done", "key_error", "error"})

\* C2: the iteration ceiling is absolute.  Once the Supervisor has been
\* invoked MAX_ITERATIONS or more times, requires_human_escalation is true
\* in the resulting state (at the latest once the escalation handler, if it
\* is the node about to run, has run).
C2_CeilingForcesEscalationFlag ==
    (sup_calls >= max_iterations /\ ~(status = "running" /\ node = "human_escalation_agent"))
        => state.requires_human_escalation

\* C3: the ceiling check dominates a pending clarification.  A Supervisor
\* invocation that starts with needs_clarification = true and whose
\* increment reaches MAX_ITERATIONS does not resolve the clarification, sets
\* next_agent = "human_escalation_agent", and the node executed next is
\* human_escalation.
C3_CeilingDominatesClarification ==
    [][(Executes("supervisor_agent") /\ state.needs_clarification
            /\ state.n_iteration + 1 >= max_iterations)
        => (branch' = "ceiling"
            /\ state'.next_agent = "human_escalation_agent"
            /\ status' = "running"
            /\ node' = "human_escalation_agent")]_vars

\* The node the graph runs for a dispatcher answer d.
NodeFor(d) == IF d \in DOMAIN PathMap THEN PathMap[d] ELSE "no such node"

\* C4: dispatch precedence.  The dispatcher returns the supervisor node when
\* needs_clarification is true; otherwise "end" (the final_answer node) when
\* end_conversation is true; otherwise human_escalation when
\* requires_human_escalation is true; otherwise the value of next_agent.
C4_DispatchPrecedence ==
    probe_out # "unset" =>
        /\ probe.needs_clarification => NodeFor(probe_out) = "supervisor_agent"
        /\ (~probe.needs_clarification /\ probe.end_conversation)
              => (probe_out = "end" /\ NodeFor(probe_out) = "final_answer_agent")
        /\ (~probe.needs_clarification /\ ~probe.end_conversation
              /\ probe.requires_human_escalation)
              => NodeFor(probe_out) = "human_escalation_agent"
        /\ (~probe.needs_clarification /\ ~probe.end_conversation
              /\ ~probe.requires_human_escalation /\ "next_agent" \in DOMAIN probe)
              => probe_out = probe.next_agent

\* C4 witness: a state with needs_clarification and end_conversation both
\* true has been dispatched, and went to the supervisor.
C4_Witness ==
    /\ probe_out = "supervisor_agent"
    /\ probe.needs_clarification
    /\ probe.end_conversation

\* C5: after every Supervisor step exactly one of these holds: next_agent
\* names a specialist handler, needs_clarification, requires_human_escalation,
\* end_conversation.
C5_ExactlyOneOutcome ==
    (last = "supervisor_agent" /\ branch \in {"ceiling", "resolve", "ask", "route"})
        => Cardinality({c \in {"next", "clarify", "escalate", "end"} :
                \/ c = "next" /\ state.next_agent \in HandlerNames
                \/ c = "clarify" /\ state.needs_clarification
                \/ c = "escalate" /\ state.requires_human_escalation
                \/ c = "end" /\ state.end_conversation}) = 1

\* C6 (as claimed): n_iteration is incremented exactly once by a Supervisor
\* invocation that routes or asks a clarifying question, and is not
\* incremented by one that only resolves a clarification reply.
C6_NoIncrementOnResolve ==
    [][Executes("supervisor_agent") =>
          /\ branch' \in {"route", "ask"} => state'.n_iteration = state.n_iteration + 1
          /\ branch' = "resolve" => state'.n_iteration = state.n_iteration]_vars

\* C6 (amended): every Supervisor invocation that returns increments
\* n_iteration exactly once - also the one that only resolves a
\* clarification reply, and the one that hits the ceiling.
C6_IncrementOnEveryInvocation ==
    [][(Executes("supervisor_agent") /\ branch' # "raised")
          => state'.n_iteration = state.n_iteration + 1]_vars

\* C6 witness: the Supervisor has just resolved a clarification reply and
\* the counter stands at 2 (the ask step and the resolve step).
C6_Witness ==
    /\ last = "supervisor_agent"
    /\ branch = "resolve"
    /\ state.n_iteration = 2
    /\ sup_calls = 2

\* C7: after a Supervisor invocation that resolves a clarification the node
\* executed next is the Supervisor itself, whatever next_agent held before
\* and whatever MAX_ITERATIONS is.
C7_ResolveLoopsToSupervisor ==
    (last = "supervisor_agent" /\ branch = "resolve")
        => (status = "running" /\ node = "supervisor_agent")

\* C8: an unrecognized routing target fails closed.  When the Supervisor's
\* routing decision leaves a next_agent that is neither a handler name nor
\* "end", the engine goes on with general_help and does not fail.
C8_UnknownTargetFailsClosed ==
    (last = "supervisor_agent" /\ branch = "route"
        /\ state.next_agent \notin HandlerNames \cup {"end"})
        => (status = "running" /\ node = "general_help_agent")

\* C9: fallback routing on malformed model JSON.  When the model's plain
\* text is not valid JSON the Supervisor does not raise and returns
\* next_agent = "general_help_agent", task = "Assist the user with their
\* query.", justification = "", with the routing summary line as the last
\* history entry.
C9_FallbackOnMalformedJson ==
    (last = "supervisor_agent" /\ last_out.kind = "text"
        /\ last_out.content.json = "invalid")
        => /\ branch = "route"
           /\ status = "running"
           /\ state.next_agent = "general_help_agent"
           /\ state.task = "Assist the user with their query."
           /\ state.justification = ""
           /\ state.conversation_history[Len(state.conversation_history)]
                = <<"Assistant", <<"Routing to", "general_help_agent", "for:",
                                   "Assist the user with their query.">> >>

\* C9 witness: the Supervisor has just been answered with text that is not
\* JSON, after a specialist had already run on another task.
C9_Witness ==
    /\ last = "supervisor_agent"
    /\ last_out.kind = "text"
    /\ last_out.content.json = "invalid"
    /\ state.n_iteration = 2
    /\ node = "general_help_agent"

\* C10: once end_conversation or requires_human_escalation is true, no
\* specialist handler executes afterwards.
C10_NoSpecialistAfterTerminalFlag ==
    [][(state.end_conversation \/ state.requires_human_escalation)
          => ~(\E n \in Specialists : Executes(n))]_vars

\* C10 witness: a terminal flag is set, after a specialist had run earlier in
\* the turn, and the engine has stopped.
C10_Witness ==
    /\ state.end_conversation \/ state.requires_human_escalation
    /\ Len(state.messages) > 1
    /\ status = "done"

\* Sequence a is an initial segment of sequence b.
IsPrefix(a, b) == Len(a) <= Len(b) /\ SubSeq(b, 1, Len(a)) = a

\* C11: clarification field atomicity.  In every state the engine holds
\* after a node has returned, needs_clarification, clarification_question
\* and user_clarification are all set or all cleared.
C11_ClarificationFieldsTogether ==
    (steps > 0) =>
        \/ /\ state.needs_clarification
           /\ state.clarification_question # None
           /\ state.user_clarification # None
        \/ /\ ~state.needs_clarification
           /\ state.clarification_question = None
           /\ state.user_clarification = None

\* C12: conversation_history never shrinks.  Across every node invocation
\* the history after it extends the history before it.
C12_HistoryNeverShrinks ==
    [][(steps' = steps + 1)
          => IsPrefix(state.conversation_history, state'.conversation_history)]_vars

\* C12 witness: the final-answer node has closed a turn in which a
\* specialist had run, and the history holds the lines of all of them.
C12_Witness ==
    /\ last = "final_answer_agent"
    /\ status = "done"
    /\ Len(state.conversation_history) >= 4
    /\ Len(state.messages) >= 2

\* C13: the messages sequence is reset by the terminal node.  After the
\* Final-Answer or the Escalation handler has returned, messages has
\* exactly one entry.
C13_TerminalNodeResetsMessages ==
    (last \in {"final_answer_agent", "human_escalation_agent"} /\ status = "done")
        => Len(state.messages) = 1

\* C14: entity-reference stickiness.  A policy_number, customer_id or
\* claim_id that is non-null before a specialist handler runs is non-null
\* after it.
C14_EntityReferencesSticky ==
    [][\A n \in Specialists : Executes(n) =>
          /\ state.policy_number # None => state'.policy_number # None
          /\ state.customer_id # None => state'.customer_id # None
          /\ state.claim_id # None => state'.claim_id # None]_vars

\* C14 witness: the billing handler has returned in a conversation that
\* knew its policy and customer, and both are still there.
C14_Witness ==
    /\ last = "billing_agent"
    /\ branch = "handler"
    /\ state.policy_number = "POL1"
    /\ state.customer_id = "CUST1"

\* C15: no specialist handler changes next_agent, needs_clarification,
\* requires_human_escalation, end_conversation or n_iteration.
C15_SpecialistsLeaveControlFields ==
    [][\A n \in Specialists : Executes(n) =>
          /\ state'.next_agent = state.next_agent
          /\ state'.needs_clarification = state.needs_clarification
          /\ state'.requires_human_escalation = state.requires_human_escalation
          /\ state'.end_conversation = state.end_conversation
          /\ state'.n_iteration = state.n_iteration]_vars

\* C15 witness: the policy handler has returned on the Supervisor's second
\* routing decision, and the control fields are as the Supervisor left them.
C15_Witness ==
    /\ last = "policy_agent"
    /\ branch = "handler"
    /\ state.next_agent = "policy_agent"
    /\ state.n_iteration = 2
    /\ ~state.end_conversation

\* C16: every handler invocation that returns appends exactly one entry to
\* conversation_history.
C16_OneHistoryEntryPerHandler ==
    [][\A n \in HandlerNames \cup {"final_answer_agent"} :
          (Executes(n) /\ branch' = "handler")
              => Len(state'.conversation_history) = Len(state.conversation_history) + 1]_vars

\* C17: each specialist handler invocation that returns appends exactly one
\* (assistant, result) entry to messages and leaves the earlier entries in
\* place.
C17_OneMessagePerSpecialist ==
    [][\A n \in Specialists :
          (Executes(n) /\ branch' = "handler")
              => /\ Len(state'.messages) = Len(state.messages) + 1
                 /\ IsPrefix(state.messages, state'.messages)
                 /\ state'.messages[Len(state'.messages)].role = "assistant"]_vars

\* C18: GeneralHelp recovers from a retrieval failure.  The handler returns
\* normally whatever the retrieval call does; the turn does not fail in it.
C18_RetrievalFailureRecovered ==
    (last = "general_help_agent") => (branch = "handler" /\ status # "error")

\* A tool call that fails: its arguments are malformed, or the lookup it
\* makes raises or finds nothing.
ToolCallFails(tc) ==
    \/ tc.arguments \in {"wrong_keys", "not_json"}
    \/ tc.name \in BillingToolFunctions /\ tc.lookup \in {"connect_raises", "raises", "not_found"}

\* C19: a tool-call failure inside a specialist handler never aborts the
\* turn.  Whatever the tool calls of the model's answer do, the handler
\* returns with its messages entry, and every failing call was answered
\* with an error object in the second round-trip.
C19_ToolFailureNeverAborts ==
    (llm_out.done /\ llm_in.first = "tool_calls") =>
        /\ ~llm_out.raised
        /\ status = "running"
        /\ branch = "handler"
        /\ Len(state.messages) >= 1
        /\ \A i \in 1..Len(llm_in.tool_calls) :
              ToolCallFails(llm_in.tool_calls[i])
                  => llm_out.tool_messages[i].kind = "error"

\* C20: no partial commit.  The session store is written only after the
\* terminal node of the turn has completed: a step that changes what the
\* store holds under the session id is taken with the workflow finished, so
\* a turn that fails before that leaves the stored session as it was.
C20_StoreWrittenOnlyAfterTerminalNode ==
    [][(store' # store) => (chat = "invoked" /\ status = "done")]_vars

\* C23: a failing clarification channel does not fail the turn.  When the
\* Supervisor asks the user and no answer can be obtained, the Supervisor
\* step does not raise and the run goes on (towards escalation).
C23_ClarificationFailureEscalates ==
    (last = "supervisor_agent" /\ last_out.kind = "tool_call"
        /\ last_out.answer = NoAnswer)
        => (branch # "raised" /\ status = "running")

\* C21: updates of the session store are serialized per session id.  No
\* write to the store loses messages the store already holds for the id,
\* so when two turns for the same id have both finished the store holds the
\* messages of both.
C21_NoLostUpdate ==
    [][(store.exists /\ store'.exists) => IsPrefix(store.messages, store'.messages)]_vars

\* C22: a failed turn is answered with a generic failure indication: it is
\* not a normal reply, it carries the request's correlation identifier, and
\* the text of the exception is not part of it.
C22_FailureResponseIsGeneric ==
    (chat = "failed") =>
        /\ http_response.status_code = 500
        /\ http_response.message = None
        /\ http_response.request_id = RequestId
        /\ http_response.detail = None

\* C24: n_iteration never decreases over the life of a conversation: not
\* within a turn, and a turn of a session does not start below the count
\* the session recorded at the end of its previous turn.
C24_IterationCounterNeverDecreases ==
    [][/\ state'.n_iteration >= state.n_iteration
       /\ (chat' = "invoked") => state'.n_iteration >= session'.graph_state.n_iteration]_vars

\* The Supervisor's first routing decision of the turn named handler h
\* (its routing line is the second entry of the history).
RoutedFirstTo(h) ==
    /\ Len(state.conversation_history) >= 2
    /\ Len(state.conversation_history[2][2]) = 4
    /\ state.conversation_history[2][2][2] = h

\* C25: the happy path.  With MAX_ITERATIONS = 3, when Supervisor
\* iteration 1 routes to the billing or the policy handler, the handler
\* leaves its messages entry and Supervisor iteration 2 routes to "end",
\* the Final-Answer node runs next and leaves a non-empty final_answer
\* with end_conversation = true and requires_human_escalation = false.
C25_HappyPathEndsWithFinalAnswer ==
    (/\ max_iterations = 3
     /\ RoutedFirstTo("billing_agent") \/ RoutedFirstTo("policy_agent")
     /\ sup_calls = 2
     /\ steps >= 3
     /\ Len(state.messages) >= 1
     /\ state.next_agent = "end")
        => IF steps = 3
              THEN node = "final_answer_agent" /\ status = "running"
              ELSE /\ steps = 4
                   /\ last = "final_answer_agent"
                   /\ status = "done"
                   /\ state.final_answer \in Texts
                   /\ state.end_conversation
                   /\ ~state.requires_human_escalation

\* C25 witness: the happy path has been taken through the billing handler
\* and the turn has ended with a final answer.
C25_Witness ==
    /\ max_iterations = 3
    /\ RoutedFirstTo("billing_agent")
    /\ sup_calls = 2
    /\ steps = 4
    /\ last = "final_answer_agent"
    /\ status = "done"
    /\ state.final_answer \in Texts
    /\ state.end_conversation
    /\ ~state.requires_human_escalation
    /\ Len(state.messages) >= 2

\* C26: forced escalation.  When each of the first MAX_ITERATIONS - 1
\* Supervisor invocations has routed to a specialist that then ran, the
\* MAX_ITERATIONS-th invocation does not consult the model, appends the
\* fixed escalation notice to the history and sets next_agent =
\* "human_escalation_agent"; the Escalation handler runs next, and when it
\* has run requires_human_escalation is true.
C26_ForcedEscalation ==
    [][/\ (Executes("supervisor_agent") /\ steps = 2 * sup_calls
              /\ sup_calls + 1 = max_iterations)
          => /\ branch' = "ceiling"
             /\ last_out' = NoOutput
             /\ state'.conversation_history
                    = Append(state.conversation_history, EscalationNotice)
             /\ state'.next_agent = "human_escalation_agent"
             /\ status' = "running"
             /\ node' = "human_escalation_agent"
       /\ Executes("human_escalation_agent")
          => (state'.requires_human_escalation /\ status' = "done")]_vars

\* C26 witness: three Supervisor invocations with MAX_ITERATIONS = 3, two
\* specialists in between, and the Escalation handler has closed the turn.
C26_Witness ==
    /\ max_iterations = 3
    /\ sup_calls = 3
    /\ steps = 6
    /\ last = "human_escalation_agent"
    /\ state.requires_human_escalation
    /\ state.next_agent = "human_escalation_agent"

\* C27: end_conversation is true only when the Final-Answer handler has
\* executed, and final_answer is set only when the Final-Answer or the
\* Escalation handler has executed.
C27_TerminalFieldsOwnedByTerminalNodes ==
    /\ state.end_conversation => last = "final_answer_agent"
    /\ state.final_answer # None
          => last \in {"final_answer_agent", "human_escalation_agent"}

\* C27 witness: the Final-Answer handler has set both fields after two
\* Supervisor invocations.
C27_Witness ==
    /\ state.end_conversation
    /\ state.final_answer \in Texts
    /\ last = "final_answer_agent"
    /\ sup_calls = 2

\* C30: the Escalation handler leaves requires_human_escalation = true,
\* final_answer equal to the model text and messages consisting of that one
\* (assistant, text) entry; and it is the node executed next both when the
\* Supervisor hits the ceiling and when its routing decision names
\* human_escalation_agent.
C30_EscalationHandler ==
    [][/\ Executes("human_escalation_agent")
          => /\ state'.requires_human_escalation
             /\ state'.final_answer \in Texts
             /\ Len(state'.messages) = 1
             /\ state'.messages[1].role = "assistant"
             /\ state'.messages[1].content = state'.final_answer
       /\ (Executes("supervisor_agent")
              /\ (\/ branch' = "ceiling"
                  \/ branch' = "route" /\ state'.next_agent = "human_escalation_agent"))
          => (status' = "running" /\ node' = "human_escalation_agent")]_vars

\* The call asks for a record the database does not hold, or the database
\* fails.
LookupFails(q) ==
    \/ q.database # "up"
    \/ LookupKey(q) \notin KnownIds

\* C28: every lookup tool returns an error value instead of raising when
\* the record does not exist or the data store fails; get_payment_history
\* returns the empty list in those cases.
C28_LookupToolsNeverRaise ==
    (lookup_out.done /\ LookupFails(lookup_in)) =>
        /\ ~lookup_out.raised
        /\ IF lookup_in.tool = "get_payment_history"
              THEN lookup_out.kind = "data" /\ lookup_out.text = "[]"
              ELSE lookup_out.kind = "error"

\* C28 witness: get_claim_status has been called for a claim while the
\* database's query fails, and has answered with an error object.
C28_Witness ==
    /\ lookup_out.done
    /\ lookup_in.tool = "get_claim_status"
    /\ lookup_in.claim_id = "CLM1"
    /\ lookup_in.database = "query_fails"
    /\ ~lookup_out.raised
    /\ lookup_out.kind = "error"

\* C29: a session expires only after a full inactivity window.  Whenever
\* the store drops the session, its last update (the commit of a turn) is
\* at least the TTL in the past, with Redis and with the in-memory store.
C29_ExpiryOnlyAfterInactivityWindow ==
    [][(entry.present /\ ~entry'.present) => clock - entry.last_activity >= Ttl]_vars

\* C31: the Final-Answer handler sets final_answer to the model text, sets
\* end_conversation, appends one "Assistant: <final_answer>" entry to the
\* history, and leaves messages consisting of exactly the single
\* synthesized (assistant, final_answer) entry.
C31_FinalAnswerHandler ==
    [][Executes("final_answer_agent")
          => /\ state'.final_answer \in Texts
             /\ state'.end_conversation
             /\ state'.conversation_history
                    = Append(state.conversation_history,
                             <<"Assistant", <<state'.final_answer>> >>)
             /\ Len(state'.messages) = 1
             /\ state'.messages[1].role = "assistant"
             /\ state'.messages[1].content = state'.final_answer]_vars

\* C33: graph shape.  The supervisor is the entry node; a specialist that
\* has executed passes control to the supervisor; after final_answer or
\* human_escalation the engine stops; and the node that executes is the
\* one node scheduled.
C33_GraphShape ==
    [][/\ steps = 0 => node = "supervisor_agent"
       /\ (steps' = steps + 1) => last' = node
       /\ \A n \in Specialists :
             (Executes(n) /\ branch' # "raised")
                => (node' = "supervisor_agent" /\ status' = "running")
       /\ \A n \in {"final_answer_agent", "human_escalation_agent"} :
             Executes(n) => (node' = END /\ status' = "done")]_vars

\* C33 witness: a specialist has run after the supervisor and control is
\* back at the supervisor.
C33_Witness ==
    /\ steps = 2
    /\ last \in Specialists
    /\ branch = "handler"
    /\ node = "supervisor_agent"
    /\ status = "running"

\* C35: in every reachable state of a turn n_iteration <= MAX_ITERATIONS
\* (the Supervisor is not invoked again after the ceiling was reached).
C35_IterationCounterBounded ==
    state.n_iteration <= max_iterations

\* The Supervisor asked a clarifying question in this turn: the history
\* holds a user line after the first.
AskedInThisTurn ==
    \E i \in 2..Len(state.conversation_history) :
        state.conversation_history[i][1] = "User"

\* C36: with MAX_ITERATIONS = 3, a turn in which the Supervisor asked a
\* clarifying question and that terminates, terminates at
\* human_escalation, never at final_answer.
C36_AskedTurnsEndInEscalation ==
    (max_iterations = 3 /\ AskedInThisTurn /\ status = "done")
        => last = "human_escalation_agent"

\* C36 witness: ask, resolve, ceiling, escalation with MAX_ITERATIONS = 3.
C36_Witness ==
    /\ max_iterations = 3
    /\ AskedInThisTurn
    /\ status = "done"
    /\ last = "human_escalation_agent"
    /\ sup_calls = 3
    /\ steps = 4

\* C40: a Supervisor invocation consumes at most one model answer, and
\* none on the ceiling step or on the resolve step; on the ask_user path
\* (the user answering) it returns needs_clarification = true with the
\* question and the answer recorded and leaves next_agent, task and
\* justification as they were.
C40_SupervisorModelCalls ==
    [][Executes("supervisor_agent")
          => /\ branch' \in {"ceiling", "resolve"} => last_out' = NoOutput
             /\ branch' \in {"ask", "route"} => last_out' \in ModelOutputs
             /\ branch' = "ask"
                   => /\ last_out'.kind = "tool_call"
                      /\ last_out'.answer # NoAnswer
                      /\ state'.needs_clarification
                      /\ state'.clarification_question = last_out'.question
                      /\ state'.user_clarification = last_out'.answer
                      /\ state'.conversation_history
                            = state.conversation_history
                                \o << <<"Assistant", <<last_out'.question>> >>,
                                      <<"User", <<last_out'.answer>> >> >>
                      /\ state'.next_agent = state.next_agent
                      /\ state'.task = state.task
                      /\ state'.justification = state.justification]_vars

\* C40 witness: the Supervisor has asked after a specialist had run, so
\* next_agent, task and justification held a routing decision to keep.
C40_Witness ==
    /\ last = "supervisor_agent"
    /\ branch = "ask"
    /\ sup_calls = 2
    /\ state.needs_clarification
    /\ state.next_agent \in Specialists
    /\ state.user_clarification # None

\* C38: the dispatch functions of the two implementations return the
\* same node for every state, and the two workflow graphs have the same
\* nodes, entry point and edges.
C38_TwoImplementationsAgree ==
    /\ (probe_out # "unset" /\ call_out.done) => call_out.value = probe_out
    /\ agent_Nodes = Nodes
    /\ agent_EntryPoint = EntryPoint
    /\ agent_PathMap = PathMap
    /\ \A n \in Nodes \ {"supervisor_agent"} : agent_FixedEdge(n) = FixedEdge(n)

\* C38 witness: both dispatchers have been called on a state in which a
\* clarification is pending and end_conversation is set.
C38_Witness ==
    /\ probe_out # "unset"
    /\ call_out.done
    /\ probe.needs_clarification
    /\ probe.end_conversation
    /\ probe_out = "supervisor_agent"
    /\ call_out.value = "supervisor_agent"

\* C32: Final-Answer source selection.  For every messages sequence the
\* text summarized is the content of the last entry whose text does not
\* contain "clarification" in any case; if no entry qualifies (the sequence
\* is empty or holds clarification artifacts only) it is the fixed
\* placeholder.
C32_FinalAnswerSourceSelection ==
    call_out.done =>
        LET messages == call_in.messages
            qualifying == {i \in 1..Len(messages) :
                              \A k \in 1..Len(messages[i].content) :
                                  messages[i].content[k]
                                      \notin {"clarification", "Clarification"}}
        IN IF qualifying = {}
              THEN call_out.value = NoResponseAvailable
              ELSE \E i \in qualifying :
                      /\ \A j \in qualifying : j <= i
                      /\ call_out.value = messages[i].content

\* C32 witness: the newest message is a capitalised clarification artifact
\* and the scan has gone past it to the answer before it.
C32_Witness ==
    /\ call_out.done
    /\ call_in.fn = "specialist_response"
    /\ Len(call_in.messages) = 3
    /\ call_in.messages[3].content = <<"Clarification", "needed">>
    /\ call_in.messages[2].content = <<"resp2">>
    /\ call_out.value = <<"resp2">>

\* The fields create_initial_state fixes, apart from conversation_history.
InitialFields(v, user_input, customer_id, policy_number) ==
    /\ v.n_iteration = 0
    /\ v.messages = << >>
    /\ ~v.needs_clarification
    /\ ~v.end_conversation
    /\ ~v.requires_human_escalation
    /\ v.final_answer = None
    /\ v.next_agent = "supervisor_agent"
    /\ v.user_input = user_input
    /\ v.customer_id = customer_id
    /\ v.policy_number = policy_number

\* update_state has changed the fields it was given and no other.
UpdatedOnlyGivenFields ==
    (call_in.fn = "create_initial_state" /\ call_in'.fn = "update_state")
        => /\ DOMAIN call_out'.value
                 = (DOMAIN call_out.value) \cup (DOMAIN call_in'.updates)
           /\ \A k \in DOMAIN call_in'.updates :
                 call_out'.value[k] = call_in'.updates[k]
           /\ \A k \in (DOMAIN call_out.value) \ (DOMAIN call_in'.updates) :
                 call_out'.value[k] = call_out.value[k]

\* C34 as stated: every turn starts from the state built by
\* create_initial_state, with n_iteration = 0, messages empty, the flags
\* false, final_answer null, next_agent = "supervisor_agent",
\* conversation_history = "User: <user_input>" and the supplied customer_id
\* and policy_number unchanged; update_state changes only the fields it is
\* given.
C34_TurnStartsFromInitialState ==
    [][/\ (~call_out.done /\ call_in.fn = "create_initial_state")
          => /\ InitialFields(call_out'.value, call_in.user_input,
                              call_in.customer_id, call_in.policy_number)
             /\ call_out'.value.conversation_history
                    = << <<"User", <<call_in.user_input>> >> >>
       /\ (~call_out.done /\ call_in.fn = "chat_begin")
          => /\ InitialFields(call_out'.value, call_in.user_input,
                              Or(call_in.context.customer_id,
                                 call_in.stored.context.customer_id),
                              Or(call_in.context.policy_number,
                                 call_in.stored.context.policy_number))
             /\ call_out'.value.conversation_history
                    = << <<"User", <<call_in.user_input>> >> >>
       /\ UpdatedOnlyGivenFields]_vars

\* C34 amended: as C34, except that a turn started by chat() begins with
\* conversation_history holding the session's earlier messages followed by
\* "User: <user_input>" (which is that one line only on the first turn of a
\* session).
C34_TurnStartsFromSeededInitialState ==
    [][/\ (~call_out.done /\ call_in.fn = "create_initial_state")
          => /\ InitialFields(call_out'.value, call_in.user_input,
                              call_in.customer_id, call_in.policy_number)
             /\ call_out'.value.conversation_history
                    = << <<"User", <<call_in.user_input>> >> >>
       /\ (~call_out.done /\ call_in.fn = "chat_begin")
          => /\ InitialFields(call_out'.value, call_in.user_input,
                              Or(call_in.context.customer_id,
                                 call_in.stored.context.customer_id),
                              Or(call_in.context.policy_number,
                                 call_in.stored.context.policy_number))
             /\ call_out'.value.conversation_history
                    = get_conversation_history(call_in.stored)
                        \o << <<"User", <<call_in.user_input>> >> >>
       /\ UpdatedOnlyGivenFields]_vars

\* C34 witness: chat() has built the state of a turn on a session that
\* holds an earlier exchange.
C34_Witness ==
    /\ call_out.done
    /\ call_in.fn = "chat_begin"
    /\ call_in.stored.exists
    /\ Len(call_out.value.conversation_history) = 3
    /\ call_out.value.n_iteration = 0

\* C37: every turn that completes without error reports
\* conversation_complete = true and leaves the session marked complete
\* (conversation_complete = true, is_active = false); and a message for a
\* session already marked complete is accepted and starts a workflow run
\* with n_iteration = 0.
C37_CompletedSessionsStayOpen ==
    [][/\ (chat' = "responded")
          => /\ http_response'.status_code = 200
             /\ http_response'.conversation_complete
             /\ store'.conversation_complete
             /\ ~store'.is_active
       /\ (chat = "idle" /\ chat' = "invoked" /\ store.conversation_complete)
          => /\ status' = "running"
             /\ node' = "supervisor_agent"
             /\ state'.n_iteration = 0]_vars

\* C37 witness: a turn on a session that was already marked complete has
\* run and completed in its turn.
C37_Witness ==
    /\ chat = "responded"
    /\ Len(store.messages) = 4
    /\ store.conversation_complete
    /\ ~store.is_active
    /\ http_response.conversation_complete

\* C39: session entity references are sticky across turns.  Once the
\* stored session's context holds a customer_id, policy_number or claim_id,
\* no later write of the session sets that field back to null.
C39_SessionEntityReferencesSticky ==
    [][(store.exists /\ store'.exists)
          => /\ store.context.customer_id # None => store'.context.customer_id # None
             /\ store.context.policy_number # None => store'.context.policy_number # None
             /\ store.context.claim_id # None => store'.context.claim_id # None]_vars

====
